---- MODULE Spec2Model ----
(***************************************************************************)
(* Model of manim/mobject/text/typst_mobject.py: the markup normalizer of  *)
(* SingleStringMathTypst, the segmentation and reassembly of MathTypst,    *)
(* the lookup of parts by their typst string, and the BulletedList and     *)
(* Title decorations.                                                      *)
(*                                                                         *)
(* A Python str is a sequence of one-character strings.                    *)
(***************************************************************************)
EXTENDS Integers, Sequences, FiniteSets, TLC

\* ------------------------------------------------------------------------
\* Python str primitives
\* ------------------------------------------------------------------------

\* Characters str.strip() and str.split() treat as whitespace.
Whitespace == {" "}

RECURSIVE LStrip(_)
LStrip(s) == IF s # <<>> /\ Head(s) \in Whitespace THEN LStrip(Tail(s)) ELSE s

RECURSIVE RStrip(_)
RStrip(s) ==
    IF s # <<>> /\ s[Len(s)] \in Whitespace
    THEN RStrip(SubSeq(s, 1, Len(s) - 1))
    ELSE s

\* str.strip()
Strip(s) == RStrip(LStrip(s))

\* s[n:]
Drop(s, n) == SubSeq(s, n + 1, Len(s))

\* str.startswith
StartsWith(s, p) == Len(p) <= Len(s) /\ SubSeq(s, 1, Len(p)) = p

\* str.endswith
EndsWith(s, p) == Len(p) <= Len(s) /\ SubSeq(s, Len(s) - Len(p) + 1, Len(s)) = p

\* sub in s
Contains(s, sub) == \E i \in 0..Len(s) : StartsWith(Drop(s, i), sub)

\* str.count(sub) for a non-empty sub: non-overlapping occurrences, left to right
RECURSIVE Count(_, _)
Count(s, sub) ==
    IF Len(s) < Len(sub) THEN 0
    ELSE IF StartsWith(s, sub) THEN 1 + Count(Drop(s, Len(sub)), sub)
    ELSE Count(Tail(s), sub)

\* str.replace(old, new) for a non-empty old
RECURSIVE Replace(_, _, _)
Replace(s, old, new) ==
    IF Len(s) < Len(old) THEN s
    ELSE IF StartsWith(s, old) THEN new \o Replace(Drop(s, Len(old)), old, new)
    ELSE <<Head(s)>> \o Replace(Tail(s), old, new)

\* str.lower(), one character
LowerChar(c) ==
    CASE c = "A" -> "a"
      [] c = "B" -> "b"
      [] c = "I" -> "i"
      [] OTHER -> c

\* str.lower()
Lower(s) == [i \in 1..Len(s) |-> LowerChar(s[i])]

\* sep.join(strs)
RECURSIVE Join(_, _)
Join(sep, strs) ==
    IF strs = <<>> THEN <<>>
    ELSE IF Len(strs) = 1 THEN strs[1]
    ELSE strs[1] \o sep \o Join(sep, Tail(strs))

\* sum(lists, [])
RECURSIVE Flatten(_)
Flatten(lists) == IF lists = <<>> THEN <<>> ELSE Head(lists) \o Flatten(Tail(lists))

\* ------------------------------------------------------------------------
\* SingleStringMathTypst: the markup normalizer
\* ------------------------------------------------------------------------

Backslash == "\\"

\* Prepend `open` while the closers outnumber the openers, then append
\* `close` while the openers outnumber the closers; a delimiter right after
\* a backslash is not counted.
Balance(typst, open, close) ==
    LET lefts  == Count(typst, <<open>>) - Count(typst, <<Backslash, open>>)
        rights == Count(typst, <<close>>) - Count(typst, <<Backslash, close>>)
    IN  IF rights > lefts
        THEN [i \in 1..(rights - lefts) |-> open] \o typst
        ELSE typst \o [i \in 1..(lefts - rights) |-> close]

_remove_stray_braces(typst) ==
    Balance(Balance(Balance(typst, "{", "}"), "(", ")"), "[", "]")

Overline == <<"o", "v", "e", "r", "l", "i", "n", "e">>
Sqrt == <<"s", "q", "r", "t">>
Dot == <<"d", "o", "t">>
\* "#h(1)", the stand-in for an empty string
EmptyFiller == <<"#", "h", "(", "1", ")">>
\* "\\ #h(1cm) \\ ", what replaces a line break
LineBreakFiller ==
    <<Backslash, " ", "#", "h", "(", "1", "c", "m", ")", " ", Backslash, " ">>

_modify_special_strings(typst0) ==
    LET typst1 == Strip(typst0)
        should_add_filler ==
            \/ typst1 = Overline
            \/ typst1 = Overline \o <<"{">>
            \/ typst1 = Sqrt
            \/ typst1 = Sqrt \o <<"(">>
            \/ EndsWith(typst1, <<"_">>)
            \/ EndsWith(typst1, <<"^">>)
            \/ EndsWith(typst1, Dot)
        typst2 == IF should_add_filler THEN typst1 \o <<" ">> ELSE typst1
        typst3 == IF typst2 = <<>> THEN EmptyFiller ELSE typst2
        typst4 == IF StartsWith(typst3, <<Backslash, " ">>)
                  THEN Replace(typst3, <<Backslash, " ">>, LineBreakFiller)
                  ELSE typst3
    IN  _remove_stray_braces(typst4)

_get_modified_expression(typst_string) ==
    _modify_special_strings(Strip(typst_string))

\* ------------------------------------------------------------------------
\* MathTypst: breaking the arguments into typst strings
\* ------------------------------------------------------------------------

\* The empty code block "#{}" at which typst strings are split
SplitMarker == <<"#", "{", "}">>

\* The offsets in start..Len(s) at which sub occurs in s
Occurrences(s, sub, start) ==
    {p \in start..Len(s) : StartsWith(Drop(s, p), sub)}

Min(S) == CHOOSE x \in S : \A y \in S : x <= y

\* re.split(..., maxsplit=1): only the first occurrence splits
SplitLiteralOnce(s, lit) ==
    LET occ == Occurrences(s, lit, 0)
    IN  IF occ = {} THEN <<s>>
        ELSE <<SubSeq(s, 1, Min(occ)), Drop(s, Min(occ) + Len(lit))>>

\* re.split of s at a literal, non-empty pattern without groups
RECURSIVE SplitLiteral(_, _)
SplitLiteral(s, lit) ==
    LET occ == Occurrences(s, lit, 0)
    IN  IF occ = {} THEN <<s>>
        ELSE <<SubSeq(s, 1, Min(occ))>>
                 \o SplitLiteral(Drop(s, Min(occ) + Len(lit)), lit)

\* An element of the list returned by re.split: a str, or None for a group
\* that took no part in the match
Piece(text) == [none |-> FALSE, text |-> text]
NonePiece == [none |-> TRUE, text |-> <<>>]

\* re.split(pattern, s) where pattern is "(p1)|(p2)|..." of escaped
\* literals, scanning from offset start. The leftmost match wins, and at one
\* offset the first alternative that matches; after an empty match the next
\* match may not be empty at the same offset.
RECURSIVE ReSplitFrom(_, _, _, _)
ReSplitFrom(patterns, s, start, must_advance) ==
    LET Accepts(p, j) ==
            /\ StartsWith(Drop(s, p), patterns[j])
            /\ ~(must_advance /\ p = start /\ patterns[j] = <<>>)
        offsets == {p \in start..Len(s) : \E j \in 1..Len(patterns) : Accepts(p, j)}
    IN  IF offsets = {} THEN <<Piece(Drop(s, start))>>
        ELSE LET p == Min(offsets)
                 j == Min({k \in 1..Len(patterns) : Accepts(p, k)})
                 stop == p + Len(patterns[j])
                 groups == [g \in 1..Len(patterns) |->
                               IF g = j THEN Piece(patterns[j]) ELSE NonePiece]
             IN  <<Piece(SubSeq(s, start + 1, p))>> \o groups
                     \o ReSplitFrom(patterns, s, stop, stop = p)

\* re.split with "p1|p2|..." without groups: the matches are not returned
ReSplitNoGroups(patterns, s) ==
    LET pieces == ReSplitFrom(patterns, s, 0, FALSE)
        stride == Len(patterns) + 1
    IN  [i \in 1..((Len(pieces) + Len(patterns)) \div stride) |->
            pieces[(i - 1) * stride + 1]]

ReSplit(patterns, s) == ReSplitFrom(patterns, s, 0, FALSE)

\* [p for p in pieces if p and p.strip()]
RECURSIVE TruthyStripped(_)
TruthyStripped(pieces) ==
    IF pieces = <<>> THEN <<>>
    ELSE (IF ~Head(pieces).none /\ Strip(Head(pieces).text) # <<>>
          THEN <<Head(pieces).text>> ELSE <<>>) \o TruthyStripped(Tail(pieces))

\* [p for p in pieces if p]
RECURSIVE Truthy(_)
Truthy(pieces) ==
    IF pieces = <<>> THEN <<>>
    ELSE (IF ~Head(pieces).none /\ Head(pieces).text # <<>>
          THEN <<Head(pieces).text>> ELSE <<>>) \o Truthy(Tail(pieces))

\* The arguments split at the empty code blocks
BraceSplit(typst_args) ==
    Flatten([i \in 1..Len(typst_args) |-> SplitLiteral(typst_args[i], SplitMarker)])

\* len(typst_strings) >= pre_split_length
BraceNotationSplitAtLeast(typst_args) == Len(BraceSplit(typst_args)) >= Len(typst_args)

\* Whether the split at the empty code blocks made more strings
BraceNotationSplit(typst_args) == Len(BraceSplit(typst_args)) > Len(typst_args)

\* The keys of a colour map, in the order of its items
Keys(color_map) == [i \in 1..Len(color_map) |-> color_map[i].key]

_break_up_typst_strings(typst_args, isolate, color_map) ==
    LET split == BraceSplit(typst_args)
        patterns == isolate \o Keys(color_map)
        pieces == IF patterns # <<>>
                  THEN Flatten([i \in 1..Len(split) |-> ReSplit(patterns, split[i])])
                  ELSE [i \in 1..Len(split) |-> Piece(split[i])]
    IN  Truthy(pieces)

\* ------------------------------------------------------------------------
\* State
\* ------------------------------------------------------------------------

VARIABLES
    pc,                             \* where the constructor stands
    kind,                           \* the class being constructed
    include_underline,              \* Title: whether an underline is added
    typst_environment,
    typst_args,                     \* the positional arguments (parts, items)
    arg_separator,
    substrings_to_isolate,
    typst_to_color_map,             \* the items of the dict, in order
    brace_notation_split_occurred,
    typst_strings,                  \* self.typst_strings
    engine,                         \* what the Typst compiler has answered so far
    num_leaves,                     \* len(self.submobjects) of the joint render
    curr_index,
    new_submobjects,
    submobjects,                    \* self.submobjects once regrouped
    raised,                         \* the exception that left the constructor
    hint_logged,                    \* whether logger.error gave the "#{}" hint
    lookup                          \* the last get_part(s)_by_typst call

vars == <<pc, kind, include_underline, typst_environment, typst_args,
          arg_separator, substrings_to_isolate, typst_to_color_map,
          brace_notation_split_occurred, typst_strings, engine, num_leaves,
          curr_index, new_submobjects, submobjects, raised, hint_logged, lookup>>

args == <<kind, include_underline, typst_environment, typst_args,
          arg_separator, substrings_to_isolate, typst_to_color_map>>

\* ------------------------------------------------------------------------
\* The Typst compiler and the SVG parser (typst_to_svg_file, SVGMobject)
\* ------------------------------------------------------------------------

\* Largest number of paths one compiled expression yields
MaxLeaves == 2

\* The compiler either rejects an expression (ValueError) or yields an SVG
\* with n paths.
CompilationError == [ok |-> FALSE, n |-> 0]
Outcomes == {[ok |-> TRUE, n |-> n] : n \in 0..MaxLeaves} \cup {CompilationError}

\* The compiler is a function of the expression and the environment: an
\* expression compiled before gives what it gave.
RenderKey(environment, expression) == <<environment, expression>>
RenderOutcomes(key) == IF key \in DOMAIN engine THEN {engine[key]} ELSE Outcomes
EngineAfter(key, outcome) ==
    IF key \in DOMAIN engine THEN engine ELSE engine @@ (key :> outcome)

\* What SingleStringMathTypst.__init__ hands to typst_to_svg_file
SingleStringKey(environment, typst_string) ==
    RenderKey(environment, _get_modified_expression(typst_string))

\* ------------------------------------------------------------------------
\* Submobjects
\* ------------------------------------------------------------------------

\* A SingleStringMathTypst made by _break_up_by_substrings: the typst string
\* it was made from, the leaves of the joint render it owns (their indices
\* in the joint render), and the leaf it was moved to when it owns none.
Part(typst_string, leaves, anchor) ==
    [typst_string |-> typst_string, leaves |-> leaves, anchor |-> anchor,
     color |-> "default", bullet |-> FALSE, is_typst |-> TRUE]

\* The Line a Title adds to its submobjects: it has no get_typst_string
Underline ==
    [typst_string |-> <<>>, leaves |-> <<>>, anchor |-> <<>>,
     color |-> "default", bullet |-> FALSE, is_typst |-> FALSE]

\* len("".join(self.arg_separator.split()))
SeparatorLength(sep) == Len(SelectSeq(sep, LAMBDA c : c \notin Whitespace))

\* Whether a Python list of length len has an item at index i
ValidIndex(i, len) == -len <= i /\ i < len

\* The item a Python list of length len gives at a valid index i, from 0
ResolveIndex(i, len) == IF i < 0 THEN i + len ELSE i

\* The indices self.submobjects[:hi] takes from a list of length len
SliceFromStart(lo, hi, len) ==
    LET stop == IF hi < len THEN hi ELSE len
    IN  IF stop <= 0 THEN <<>> ELSE [j \in 1..stop |-> j - 1]

\* The indices self.submobjects[lo:hi] takes from a list of length len, for
\* 0 <= lo <= hi
SliceIndices(lo, hi, len) ==
    LET stop == IF hi < len THEN hi ELSE len
    IN  IF stop <= lo THEN <<>> ELSE [j \in 1..(stop - lo) |-> lo + j - 1]

\* test(typst1, typst2) of get_parts_by_typst
Test(typst1, typst2, substring, case_sensitive) ==
    LET t1 == IF case_sensitive THEN typst1 ELSE Lower(typst1)
        t2 == IF case_sensitive THEN typst2 ELSE Lower(typst2)
    IN  IF substring THEN Contains(t2, t1) ELSE t1 = t2

\* The positions in mobs of the submobjects get_parts_by_typst returns
RECURSIVE MatchingFrom(_, _, _, _, _)
MatchingFrom(mobs, i, typst, substring, case_sensitive) ==
    IF i > Len(mobs) THEN <<>>
    ELSE (IF Test(typst, mobs[i].typst_string, substring, case_sensitive)
          THEN <<i>> ELSE <<>>)
             \o MatchingFrom(mobs, i + 1, typst, substring, case_sensitive)

get_parts_by_typst(mobs, typst, substring, case_sensitive) ==
    MatchingFrom(mobs, 1, typst, substring, case_sensitive)

\* get_part_by_typst: the first part, or none (<<>>)
get_part_by_typst(mobs, typst, substring, case_sensitive) ==
    LET all_parts == get_parts_by_typst(mobs, typst, substring, case_sensitive)
    IN  IF all_parts # <<>> THEN <<all_parts[1]>> ELSE <<>>

\* set_color_by_typst with the default substring and case_sensitive
set_color_by_typst(mobs, typst, color) ==
    LET parts_to_color == get_parts_by_typst(mobs, typst, TRUE, TRUE)
    IN  [i \in 1..Len(mobs) |->
            IF \E k \in 1..Len(parts_to_color) : parts_to_color[k] = i
            THEN [mobs[i] EXCEPT !.color = color]
            ELSE mobs[i]]

\* set_color_by_typst_to_color_map, for keys that are strings
RECURSIVE set_color_by_typst_to_color_map(_, _)
set_color_by_typst_to_color_map(mobs, color_map) ==
    IF color_map = <<>> THEN mobs
    ELSE set_color_by_typst_to_color_map(
             set_color_by_typst(mobs, Head(color_map).key, Head(color_map).color),
             Tail(color_map))

\* ------------------------------------------------------------------------
\* The constructors
\* ------------------------------------------------------------------------

NoLookup ==
    [op |-> "none", typst |-> <<>>, substring |-> FALSE,
     case_sensitive |-> FALSE, raised |-> "", parts |-> <<>>]

\* "\\\\", the line break a BulletedList puts after each item
LineBreak == <<Backslash, Backslash>>

\* line_separated_items
LineSeparated(items) == [i \in 1..Len(items) |-> items[i] \o LineBreak]

\* "\\cdot", the bullet of a BulletedList
Cdot == <<Backslash, "c", "d", "o", "t">>

\* The strings MathTypst.__init__ is given
ConstructorArgs ==
    IF kind = "BulletedList" THEN LineSeparated(typst_args) ELSE typst_args

\* An exception leaves the constructor. The handler of MathTypst.__init__
\* catches a ValueError and logs the hint if a split at "#{}" occurred.
Raise(exception) ==
    /\ pc' = "raised"
    /\ raised' = exception
    /\ hint_logged' = (exception = "ValueError" /\ brace_notation_split_occurred)

\* SingleStringMathTypst(typst_string): compile the modified expression
SingleStringInit ==
    /\ pc = "init"
    /\ kind = "SingleStringMathTypst"
    /\ LET key == SingleStringKey(typst_environment, typst_args[1])
       IN  \E outcome \in RenderOutcomes(key) :
               /\ engine' = EngineAfter(key, outcome)
               /\ IF outcome.ok
                  THEN /\ num_leaves' = outcome.n
                       /\ pc' = "done"
                       /\ UNCHANGED <<raised, hint_logged>>
                  ELSE /\ pc' = "raised"
                       /\ raised' = "ValueError"
                       /\ UNCHANGED <<num_leaves, hint_logged>>
    /\ UNCHANGED <<args, brace_notation_split_occurred, typst_strings,
                   curr_index, new_submobjects, submobjects, lookup>>

\* MathTypst.__init__ up to the joint render
BreakUpTypstStrings ==
    /\ pc = "init"
    /\ kind # "SingleStringMathTypst"
    /\ brace_notation_split_occurred' = BraceNotationSplit(ConstructorArgs)
    /\ typst_strings' = _break_up_typst_strings(
                            ConstructorArgs, substrings_to_isolate, typst_to_color_map)
    /\ pc' = "joint"
    /\ UNCHANGED <<args, engine, num_leaves, curr_index, new_submobjects,
                   submobjects, raised, hint_logged, lookup>>

\* super().__init__(self.arg_separator.join(self.typst_strings), ...)
JointRender ==
    /\ pc = "joint"
    /\ LET key == SingleStringKey(typst_environment, Join(arg_separator, typst_strings))
       IN  \E outcome \in RenderOutcomes(key) :
               /\ engine' = EngineAfter(key, outcome)
               /\ IF outcome.ok
                  THEN /\ num_leaves' = outcome.n
                       /\ pc' = "break_up"
                       /\ UNCHANGED <<raised, hint_logged>>
                  ELSE /\ Raise("ValueError")
                       /\ UNCHANGED num_leaves
    /\ curr_index' = 0
    /\ new_submobjects' = <<>>
    /\ UNCHANGED <<args, brace_notation_split_occurred, typst_strings,
                   submobjects, lookup>>

\* One turn of the loop of _break_up_by_substrings
BreakUpBySubstringsStep ==
    /\ pc = "break_up"
    /\ Len(new_submobjects) < Len(typst_strings)
    /\ LET typst_string == typst_strings[Len(new_submobjects) + 1]
           key == SingleStringKey(typst_environment, typst_string)
       IN  \E outcome \in RenderOutcomes(key) :
               LET num_submobs == outcome.n
                   new_index == curr_index + num_submobs + SeparatorLength(arg_separator)
                   last_submob_index ==
                       IF curr_index < num_leaves - 1 THEN curr_index ELSE num_leaves - 1
               IN  /\ engine' = EngineAfter(key, outcome)
                   /\ IF ~outcome.ok
                      THEN /\ Raise("ValueError")
                           /\ UNCHANGED <<curr_index, new_submobjects>>
                      ELSE IF num_submobs = 0 /\ ~ValidIndex(last_submob_index, num_leaves)
                      THEN /\ Raise("IndexError")
                           /\ UNCHANGED <<curr_index, new_submobjects>>
                      ELSE /\ new_submobjects' = Append(new_submobjects,
                                IF num_submobs = 0
                                THEN Part(typst_string, <<>>,
                                          <<ResolveIndex(last_submob_index, num_leaves)>>)
                                ELSE Part(typst_string,
                                          SliceIndices(curr_index, new_index, num_leaves),
                                          <<>>))
                           /\ curr_index' = new_index
                           /\ UNCHANGED <<pc, raised, hint_logged>>
    /\ UNCHANGED <<args, brace_notation_split_occurred, typst_strings,
                   num_leaves, submobjects, lookup>>

\* The loop of _break_up_by_substrings is over
LoopDone == pc = "break_up" /\ Len(new_submobjects) = Len(typst_strings)

\* self.submobjects once MathTypst.__init__ returns
Constructed == set_color_by_typst_to_color_map(new_submobjects, typst_to_color_map)

\* MathTypst.__init__ from the end of the loop
FinishMathTypst ==
    /\ LoopDone
    /\ kind = "MathTypst"
    /\ submobjects' = Constructed
    /\ pc' = "done"
    /\ UNCHANGED <<args, brace_notation_split_occurred, typst_strings, engine,
                   num_leaves, curr_index, new_submobjects, raised, hint_logged,
                   lookup>>

\* BulletedList.__init__ from the end of the loop: a dot, MathTypst("\\cdot"),
\* is put before the first leaf of each part
FinishBulletedList ==
    /\ LoopDone
    /\ kind = "BulletedList"
    /\ LET key == SingleStringKey("align*", Cdot)
       IN  IF Constructed = <<>>
           THEN /\ submobjects' = Constructed
                /\ pc' = "done"
                /\ UNCHANGED <<engine, raised, hint_logged>>
           ELSE \E outcome \in RenderOutcomes(key) :
                    /\ engine' = EngineAfter(key, outcome)
                    /\ IF ~outcome.ok
                       THEN /\ pc' = "raised"
                            /\ raised' = "ValueError"
                            /\ UNCHANGED <<submobjects, hint_logged>>
                       ELSE IF \/ outcome.n = 0
                               \/ \E i \in 1..Len(Constructed) : Constructed[i].leaves = <<>>
                       THEN /\ pc' = "raised"
                            /\ raised' = "IndexError"
                            /\ UNCHANGED <<submobjects, hint_logged>>
                       ELSE /\ submobjects' = [i \in 1..Len(Constructed) |->
                                                  [Constructed[i] EXCEPT !.bullet = TRUE]]
                            /\ pc' = "done"
                            /\ UNCHANGED <<raised, hint_logged>>
    /\ UNCHANGED <<args, brace_notation_split_occurred, typst_strings,
                   num_leaves, curr_index, new_submobjects, lookup>>

\* Title.__init__ from the end of the loop
FinishTitle ==
    /\ LoopDone
    /\ kind = "Title"
    /\ submobjects' = IF include_underline
                      THEN Append(Constructed, Underline)
                      ELSE Constructed
    /\ pc' = "done"
    /\ UNCHANGED <<args, brace_notation_split_occurred, typst_strings, engine,
                   num_leaves, curr_index, new_submobjects, raised, hint_logged,
                   lookup>>

\* ------------------------------------------------------------------------
\* Lookups on a constructed object
\* ------------------------------------------------------------------------

Range(f) == {f[i] : i \in DOMAIN f}

\* The texts a caller looks up: the arguments, the typst strings, and "a"
LookupTexts == Range(typst_args) \cup Range(typst_strings) \cup {<<"a">>}

\* m.get_typst_string() fails on a submobject that is no typst mobject
LookupRaises == \E i \in 1..Len(submobjects) : ~submobjects[i].is_typst

GetPartsByTypst ==
    /\ pc = "done"
    /\ kind # "SingleStringMathTypst"
    /\ \E typst \in LookupTexts, substring \in BOOLEAN, case_sensitive \in BOOLEAN :
           lookup' = [op |-> "get_parts_by_typst", typst |-> typst,
                      substring |-> substring, case_sensitive |-> case_sensitive,
                      raised |-> IF LookupRaises THEN "AttributeError" ELSE "",
                      parts |-> IF LookupRaises THEN <<>>
                                ELSE get_parts_by_typst(
                                         submobjects, typst, substring, case_sensitive)]
    /\ UNCHANGED <<pc, args, brace_notation_split_occurred, typst_strings, engine,
                   num_leaves, curr_index, new_submobjects, submobjects, raised,
                   hint_logged>>

GetPartByTypst ==
    /\ pc = "done"
    /\ kind # "SingleStringMathTypst"
    /\ \E typst \in LookupTexts, substring \in BOOLEAN, case_sensitive \in BOOLEAN :
           lookup' = [op |-> "get_part_by_typst", typst |-> typst,
                      substring |-> substring, case_sensitive |-> case_sensitive,
                      raised |-> IF LookupRaises THEN "AttributeError" ELSE "",
                      parts |-> IF LookupRaises THEN <<>>
                                ELSE get_part_by_typst(
                                         submobjects, typst, substring, case_sensitive)]
    /\ UNCHANGED <<pc, args, brace_notation_split_occurred, typst_strings, engine,
                   num_leaves, curr_index, new_submobjects, submobjects, raised,
                   hint_logged>>

\* ------------------------------------------------------------------------
\* Inputs and specifications
\* ------------------------------------------------------------------------

\* Largest number of positional arguments
MaxParts == 2

\* Longest string given to SingleStringMathTypst
MaxLen == 3

\* The sequences over S of length lo to hi
SeqsOf(S, lo, hi) == UNION {[1..n -> S] : n \in lo..hi}

\* 'a #{} + #{} b #{} = #{} c ' and '1 / (a + b sqrt(2))' of the doctest
SplitExample ==
    <<"a", " ", "#", "{", "}", " ", "+", " ", "#", "{", "}", " ", "b", " ",
      "#", "{", "}", " ", "=", " ", "#", "{", "}", " ", "c", " ">>
NoSplitExample ==
    <<"1", " ", "/", " ", "(", "a", " ", "+", " ", "b", " ",
      "s", "q", "r", "t", "(", "2", ")", ")">>

\* 'Item 1', 'Item 2' of the BulletedList example
Item1 == <<"I", "t", "e", "m", " ", "1">>
Item2 == <<"I", "t", "e", "m", " ", "2">>

\* "e^{i" and " tau} = 1" of the docstring of _remove_stray_braces
BraceExample1 == <<"e", "^", "{", "i">>
BraceExample2 == <<" ", "t", "a", "u", "}", " ", "=", " ", "1">>

\* The parts of a MathTypst or a Title: "", " ", "a", "A#{} "
PartStrings == {<<>>, <<" ">>, <<"a">>, <<"A", "#", "{", "}", " ">>}

\* The items of a BulletedList
ItemStrings == {Item1, Item2, <<"i", "t", "e", "m", " ", "1">>, <<" ">>}

Separators == {<<>>, <<" ">>, <<",">>}

NoPatterns == [isolate |-> <<>>, color_map |-> <<>>]

\* substrings_to_isolate and typst_to_color_map
PatternConfigs ==
    { NoPatterns,
      [isolate |-> <<<<"a">>>>, color_map |-> <<>>],
      [isolate |-> <<>>, color_map |-> <<[key |-> <<"a">>, color |-> "RED"]>>] }

\* The state before the constructor runs
InitWith(k, underline, environment, arglist, sep, patterns) ==
    /\ pc = "init"
    /\ kind = k
    /\ include_underline = underline
    /\ typst_environment = environment
    /\ typst_args = arglist
    /\ arg_separator = sep
    /\ substrings_to_isolate = patterns.isolate
    /\ typst_to_color_map = patterns.color_map
    /\ brace_notation_split_occurred = FALSE
    /\ typst_strings = <<>>
    /\ engine = <<>>
    /\ num_leaves = 0
    /\ curr_index = 0
    /\ new_submobjects = <<>>
    /\ submobjects = <<>>
    /\ raised = ""
    /\ hint_logged = FALSE
    /\ lookup = NoLookup

\* MathTypst(*typst_strings, arg_separator, substrings_to_isolate,
\* typst_to_color_map)
Init ==
    \E arglist \in SeqsOf(PartStrings, 0, MaxParts)
                      \cup {<<SplitExample>>, <<NoSplitExample>>},
       sep \in Separators, patterns \in PatternConfigs :
        InitWith("MathTypst", FALSE, "align*", arglist, sep, patterns)

Next ==
    \/ BreakUpTypstStrings
    \/ JointRender
    \/ BreakUpBySubstringsStep
    \/ FinishMathTypst

Spec == Init /\ [][Next]_vars

\* BulletedList(*items, ...)
InitList ==
    \E arglist \in SeqsOf(ItemStrings, 0, MaxParts),
       sep \in Separators, patterns \in PatternConfigs :
        InitWith("BulletedList", FALSE, "None", arglist, sep, patterns)

NextList ==
    \/ BreakUpTypstStrings
    \/ JointRender
    \/ BreakUpBySubstringsStep
    \/ FinishBulletedList
    \/ GetPartsByTypst
    \/ GetPartByTypst

SpecList == InitList /\ [][NextList]_vars

\* Title(*typstt_parts, include_underline, ...)
InitTitle ==
    \E arglist \in SeqsOf(PartStrings, 0, MaxParts), underline \in BOOLEAN,
       sep \in Separators, patterns \in PatternConfigs :
        InitWith("Title", underline, "center", arglist, sep, patterns)

NextTitle ==
    \/ BreakUpTypstStrings
    \/ JointRender
    \/ BreakUpBySubstringsStep
    \/ FinishTitle
    \/ GetPartsByTypst
    \/ GetPartByTypst

SpecTitle == InitTitle /\ [][NextTitle]_vars

\* SingleStringMathTypst(typst_string)
NormAlphabet == {"a", " ", Backslash, "{", "}", "(", ")", "_"}

InitSingle ==
    \E typst_string \in SeqsOf(NormAlphabet, 0, MaxLen)
                           \cup {BraceExample1, BraceExample2, Overline, Sqrt,
                                 Overline \o <<"{">>, Sqrt \o <<"(">>, Dot,
                                 <<Backslash, " ", "a", "]">>} :
        InitWith("SingleStringMathTypst", FALSE, "align*", <<typst_string>>,
                 <<" ">>, NoPatterns)

NextSingle == SingleStringInit

SpecSingle == InitSingle /\ [][NextSingle]_vars

\* _break_up_typst_strings alone, over more isolate strings and keys
MaxTokens == 3
MaxIsolate == 2

SplitTokens == {<<"a">>, <<"b">>, SplitMarker}
IsolateStrings == {<<>>, <<"a">>, <<"b">>, <<"a", "b">>, <<"b", "a">>, SplitMarker}

InitSplit ==
    \E tokens \in SeqsOf(SplitTokens, 0, MaxTokens),
       isolate \in SeqsOf(IsolateStrings, 0, MaxIsolate),
       keys \in SeqsOf(IsolateStrings, 0, 1) :
        InitWith("MathTypst", FALSE, "align*", <<Flatten(tokens)>>, <<" ">>,
                 [isolate |-> isolate,
                  color_map |-> [i \in 1..Len(keys) |-> [key |-> keys[i], color |-> "RED"]]])

NextSplit == BreakUpTypstStrings

SpecSplit == InitSplit /\ [][NextSplit]_vars

\* MathTypst(*typst_strings, typst_to_color_map=M) over colour maps of
\* several keys; a dict holds each key once and is read in insertion order
MaxKeys == 2

ColorKeys == {<<"a">>, <<"b">>, <<"a", "b">>}
Colors == {"RED", "BLUE"}
ColorParts == {<<"a">>, <<"a", "b">>, <<"b", " ", "a", "b">>}

ColorMaps ==
    { color_map \in SeqsOf([key : ColorKeys, color : Colors], 1, MaxKeys) :
          \A i, j \in 1..Len(color_map) :
              color_map[i].key = color_map[j].key => i = j }

InitColor ==
    \E arglist \in SeqsOf(ColorParts, 1, MaxParts), sep \in Separators,
       color_map \in ColorMaps :
        InitWith("MathTypst", FALSE, "align*", arglist, sep,
                 [isolate |-> <<>>, color_map |-> color_map])

NextColor ==
    \/ BreakUpTypstStrings
    \/ JointRender
    \/ BreakUpBySubstringsStep
    \/ FinishMathTypst

SpecColor == InitColor /\ [][NextColor]_vars

\* ------------------------------------------------------------------------
\* Properties
\* ------------------------------------------------------------------------

HasMarker(s) == Contains(s, SplitMarker)
NoPatternsGiven == substrings_to_isolate = <<>> /\ typst_to_color_map = <<>>
Texts(mobs) == [i \in 1..Len(mobs) |-> mobs[i].typst_string]

\* C1, as stated: with no split marker in any part, an empty isolate list
\* and an empty colour map, the constructed object has one child per input
\* part, the i-th child recording the i-th part.
C1_ChildPerPart ==
    (/\ pc = "done"
     /\ NoPatternsGiven
     /\ \A i \in 1..Len(typst_args) : ~HasMarker(typst_args[i]))
        => Texts(submobjects) = typst_args

\* C1, amended: the same for input parts that are all non-empty (an empty
\* part is dropped and gets no child).
C1_ChildPerNonEmptyPart ==
    (/\ pc = "done"
     /\ NoPatternsGiven
     /\ \A i \in 1..Len(typst_args) :
            ~HasMarker(typst_args[i]) /\ typst_args[i] # <<>>)
        => Texts(submobjects) = typst_args

C1_Witness ==
    /\ pc = "done"
    /\ NoPatternsGiven
    /\ typst_args = << <<" ">>, <<"a">> >>
    /\ Len(submobjects) = 2

RECURSIVE OwnedLeaves(_)
OwnedLeaves(mobs) ==
    IF mobs = <<>> THEN 0 ELSE Len(Head(mobs).leaves) + OwnedLeaves(Tail(mobs))

\* The number of leaves the i-th typst string gave when compiled alone
IsolatedCount(i) == engine[SingleStringKey(typst_environment, typst_strings[i])].n

RECURSIVE IsolatedSum(_)
IsolatedSum(k) == IF k = 0 THEN 0 ELSE IsolatedCount(k) + IsolatedSum(k - 1)

\* The joint render has exactly the leaves of the typst strings compiled
\* alone plus one per visible character of each separator between them.
AdditiveRender ==
    /\ typst_strings # <<>>
    /\ num_leaves = IsolatedSum(Len(typst_strings))
                        + (Len(typst_strings) - 1) * SeparatorLength(arg_separator)

\* Of what was compiled, only the stand-in for a blank string has no leaf.
OnlyBlankIsLeafless ==
    \A key \in DOMAIN engine :
        engine[key].ok => (engine[key].n = 0 <=> key[2] = EmptyFiller)

\* C2: after construction the leaves owned by the children add up to the
\* leaves of the joint render, none dropped and none counted twice. Stated
\* for the renders the index arithmetic is exact for: the joint render is
\* additive and only a blank typst string has no leaf.
C2_NoLeafDropped ==
    (pc = "done" /\ AdditiveRender /\ OnlyBlankIsLeafless)
        => OwnedLeaves(submobjects) = num_leaves

\* The number of d in s that no backslash comes right before
Unescaped(s, d) ==
    Cardinality({i \in 1..Len(s) : s[i] = d /\ (i = 1 \/ s[i - 1] # Backslash)})

BalancedDelimiters(s) ==
    /\ Unescaped(s, "{") = Unescaped(s, "}")
    /\ Unescaped(s, "(") = Unescaped(s, ")")
    /\ Unescaped(s, "[") = Unescaped(s, "]")

\* C3: every expression the normalizer hands to the compiler has as many
\* unescaped opening as closing delimiters of each kind; "e^{i" gains one
\* "}" at its end and " tau} = 1" one "{" at its front.
C3_BalancedDelimiters ==
    \A key \in DOMAIN engine :
        /\ BalancedDelimiters(key[2])
        /\ typst_args = <<BraceExample1>> => key[2] = <<"e", "^", "{", "i", "}">>
        /\ typst_args = <<BraceExample2>>
               => key[2] = <<"{", "t", "a", "u", "}", " ", "=", " ", "1">>

\* Every piece before, between and after the split markers of s is non-empty
PiecesNonEmpty(s) ==
    /\ s # <<>>
    /\ ~StartsWith(s, SplitMarker)
    /\ ~EndsWith(s, SplitMarker)
    /\ ~Contains(s, SplitMarker \o SplitMarker)

\* C4: with no isolate strings and no colour map, one input part with k
\* split markers between non-empty pieces gives k + 1 children, the pieces
\* in order; the first doctest string gives a, +, b, =, c and the second
\* one child.
C4_ChildPerPiece ==
    (/\ pc = "done"
     /\ NoPatternsGiven
     /\ Len(typst_args) = 1
     /\ PiecesNonEmpty(typst_args[1]))
        => /\ Len(submobjects) = Count(typst_args[1], SplitMarker) + 1
           /\ Join(SplitMarker, Texts(submobjects)) = typst_args[1]
           /\ typst_args[1] = SplitExample
                  => [i \in 1..Len(submobjects) |-> Strip(submobjects[i].typst_string)]
                         = << <<"a">>, <<"+">>, <<"b">>, <<"=">>, <<"c">> >>
           /\ typst_args[1] = NoSplitExample => Len(submobjects) = 1

C4_Witness ==
    /\ pc = "done"
    /\ NoPatternsGiven
    /\ typst_args = <<SplitExample>>
    /\ Len(submobjects) = 5

\* C5: on a BulletedList of pairwise distinct items, built with no isolate
\* list and no colour map, the exact-match lookup of an item's text returns
\* exactly one submobject, the one built from that item, and its recorded
\* text is the item's text.
C5_ExactItemLookup ==
    (/\ lookup.op = "get_parts_by_typst"
     /\ ~lookup.substring
     /\ lookup.case_sensitive
     /\ NoPatternsGiven
     /\ \A i, j \in 1..Len(typst_args) : typst_args[i] = typst_args[j] => i = j
     /\ \E i \in 1..Len(typst_args) : typst_args[i] = lookup.typst)
        => /\ lookup.raised = ""
           /\ Len(lookup.parts) = 1
           /\ typst_args[lookup.parts[1]] = lookup.typst
           /\ submobjects[lookup.parts[1]].typst_string = lookup.typst

\* C6: a child whose typst string compiled to no leaf, between two children
\* that own leaves, owns no leaf and is anchored to the last leaf of the
\* child before it. Stated for joint renders that are additive and in which
\* only a blank typst string has no leaf.
C6_AnchoredToPrecedingLeaf ==
    (pc = "done" /\ AdditiveRender /\ OnlyBlankIsLeafless) =>
        \A i \in 2..(Len(submobjects) - 1) :
            (/\ submobjects[i].anchor # <<>>
             /\ submobjects[i - 1].leaves # <<>>
             /\ submobjects[i + 1].leaves # <<>>)
                => /\ submobjects[i].leaves = <<>>
                   /\ submobjects[i].anchor
                          = <<submobjects[i - 1].leaves[Len(submobjects[i - 1].leaves)]>>

\* C7: when every render succeeds the construction does not fail: the only
\* exception that leaves the constructor is the compiler's, and the loop
\* ends with one child per typst string. Stated for renders in which only a
\* blank typst string has no leaf.
C7_ZeroLeafNeverFails ==
    OnlyBlankIsLeafless
        => /\ pc = "raised" => raised = "ValueError"
           /\ pc = "done" => Len(submobjects) = Len(typst_strings)

\* The joint render was rejected by the compiler
JointRenderFailed ==
    LET key == SingleStringKey(typst_environment, Join(arg_separator, typst_strings))
    IN  /\ pc \notin {"init", "joint"}
        /\ key \in DOMAIN engine
        /\ ~engine[key].ok

\* C8: when the joint render fails the compiler's error reaches the caller,
\* and the hint about "#{}" is logged exactly if some input part contains a
\* split marker.
C8_ErrorAndHint ==
    JointRenderFailed
        => /\ pc = "raised"
           /\ raised = "ValueError"
           /\ hint_logged <=> \E i \in 1..Len(typst_args) : HasMarker(typst_args[i])

C8_Witness ==
    /\ JointRenderFailed
    /\ hint_logged
    /\ \E i \in 1..Len(typst_args) : HasMarker(typst_args[i])

\* Whether a recorded text matches t as find_parts is specified
Matches(text, t, substring, case_sensitive) ==
    LET fold(x) == IF case_sensitive THEN x ELSE Lower(x)
    IN  IF substring THEN Contains(fold(text), fold(t)) ELSE fold(text) = fold(t)

\* C9: on every constructed object a lookup completes without failure and
\* returns, in child order, exactly the children whose recorded text
\* matches (get_part_by_typst: the first of them, or none).
C9_LookupTotal ==
    lookup.op # "none" =>
        LET matching == {i \in 1..Len(submobjects) :
                            /\ submobjects[i].is_typst
                            /\ Matches(submobjects[i].typst_string, lookup.typst,
                                       lookup.substring, lookup.case_sensitive)}
        IN  /\ lookup.raised = ""
            /\ \A k \in 1..(Len(lookup.parts) - 1) : lookup.parts[k] < lookup.parts[k + 1]
            /\ lookup.op = "get_parts_by_typst" => Range(lookup.parts) = matching
            /\ lookup.op = "get_part_by_typst"
                   => lookup.parts = IF matching = {} THEN <<>> ELSE <<Min(matching)>>

OnlyPatternIn(piece, s) ==
    /\ Contains(piece, s)
    /\ \A k \in 1..Len(substrings_to_isolate) :
           substrings_to_isolate[k] # s => ~Contains(piece, substrings_to_isolate[k])
    /\ \A k \in 1..Len(typst_to_color_map) :
           typst_to_color_map[k].key # s => ~Contains(piece, typst_to_color_map[k].key)

C11_ChildHasColorOfItsKey ==
    (pc = "done" /\ OnlyBlankIsLeafless) =>
        \A i \in 1..Len(submobjects), k \in 1..Len(typst_to_color_map) :
            (/\ typst_to_color_map[k].key # <<>>
             /\ submobjects[i].typst_string = typst_to_color_map[k].key)
                => submobjects[i].color = typst_to_color_map[k].color

\* The leaves of R the children own, read in child order
RECURSIVE OwnedSequence(_)
OwnedSequence(mobs) ==
    IF mobs = <<>> THEN <<>> ELSE Head(mobs).leaves \o OwnedSequence(Tail(mobs))

StrictlyIncreasing(indices) ==
    \A i, j \in 1..Len(indices) : i < j => indices[i] < indices[j]

\* The leaves the children own are leaves of R below the cursor, each owned
\* once, in R's order
OwnedInOrder(mobs) ==
    /\ StrictlyIncreasing(OwnedSequence(mobs))
    /\ \A i \in 1..Len(OwnedSequence(mobs)) :
           /\ OwnedSequence(mobs)[i] \in 0..(num_leaves - 1)
           /\ OwnedSequence(mobs)[i] < curr_index

\* C12: in the reassembly loop the cursor curr_index never decreases, and the
\* ranges of R given to the children are disjoint and increase with the
\* child order: no leaf of R is owned twice, and the owned leaves read in
\* child order are a subsequence of R in R's order.
C12_DisjointIncreasingRanges ==
    /\ [][pc = "break_up" => curr_index' >= curr_index]_vars
    /\ [](pc = "break_up" => OwnedInOrder(new_submobjects))
    /\ [](pc = "done" => OwnedInOrder(submobjects))

C12_Witness ==
    /\ pc = "done"
    /\ Len(submobjects) = 2
    /\ submobjects[1].leaves # <<>>
    /\ submobjects[2].leaves # <<>>
    /\ curr_index = num_leaves

====
